---- MODULE Spec2Model ----
(***************************************************************************)
(* wordflow text expander: the keyboard-listener callback (on_key_press),  *)
(* the deferred expansion run on the Tk thread                             *)
(* (_process_and_replace_on_main_thread), the snippet store and the        *)
(* recent-use history, as a state machine.                                 *)
(*                                                                         *)
(* Strings are sequences of one-character strings: "/sig" is               *)
(* <<"/", "s", "i", "g">>.                                                 *)
(***************************************************************************)
EXTENDS Integers, Sequences, FiniteSets, TLC

VARIABLES
    current_input,      \* self.current_input: the rolling input buffer
    is_listening,       \* self.is_listening
    snippets,           \* self.snippet_manager.snippets: shortcut -> entry
    snippet_history,    \* self.snippet_history
    status_var,         \* self.status_var
    after_queue,        \* callbacks scheduled with root.after(0, ...), FIFO
    stack,              \* activations of _process_and_replace_on_main_thread
                        \* blocked in root.wait_window, innermost last
    CLIPBOARD_AVAILABLE,\* constants.CLIPBOARD_AVAILABLE, fixed at import
    listener_pc,        \* where the listener thread is in on_key_press
    last_op,            \* the handler that made the last step and its inputs
    nkeys,              \* key events counted by SpecCap
    call,               \* the last call traced: its function, inputs, effects
    listener,           \* the thread of self.listener
    mouse_listener,     \* the thread of self.mouse_listener
    process             \* the application process

vars == <<current_input, is_listening, snippets, snippet_history, status_var,
          after_queue, stack, CLIPBOARD_AVAILABLE, listener_pc, last_op,
          nkeys, call, listener, mouse_listener, process>>

\* the threads and the process
lifecycle == <<listener, mouse_listener, process>>

----------------------------------------------------------------------------
(* Bounds of the model *)

\* printable keys are accepted while the buffer is shorter than this
MaxInput == 2
\* key events are accepted while fewer expansions than this are scheduled
MaxQueue == 1
\* nested wait_window loops
MaxStack == 1
\* key events of a capacity run
MaxCapKeys == 4
\* a capacity run starts from a buffer at most this much below capacity
CapSlack == 2
\* replace_text takes a path that schedules a status callback while fewer
\* than this many wait to run
MaxCallbacks == 1
\* the matcher runs accept printable keys while the buffer is shorter than this
MaxMatchInput == 4
\* the numbers of a random placeholder go up to this
MaxRandom == 10
\* input dialogs answered in one evaluation of a template
MaxResponses == 2

----------------------------------------------------------------------------
(* Characters and strings *)

Letters == {"s", "i", "g", "x", "h", "a", "b"}
Digits == {"0", "1", "2", "3", "4", "5", "6", "7", "8", "9"}
Punct == {"/", " ", "-", ":", "{", "}", "?"}

\* str.isalnum() of a one-character string
isalnum(c) == c \in Letters \cup Digits

\* s[-n:] for n >= 1
LastN(s, n) == IF Len(s) > n THEN SubSeq(s, Len(s) - n + 1, Len(s)) ELSE s

\* s[:-1]
DropLast(s) == IF s = <<>> THEN <<>> ELSE SubSeq(s, 1, Len(s) - 1)

\* s.endswith(t)
endswith(s, t) ==
    /\ Len(t) <= Len(s)
    /\ SubSeq(s, Len(s) - Len(t) + 1, Len(s)) = t

\* s.rfind(t): the highest 0-based index at which t occurs in s, or -1
rfind(s, t) ==
    LET occ == {i \in 0..(Len(s) - Len(t)) : SubSeq(s, i + 1, i + Len(t)) = t}
    IN  IF occ = {} THEN -1 ELSE CHOOSE i \in occ : \A j \in occ : j <= i

----------------------------------------------------------------------------
(* The snippet store: self.snippet_manager.snippets maps a shortcut to an    *)
(* entry.  kind "dict" is a mapping with a "text" field, "notext" a mapping  *)
(* without one, "nonmapping" any other JSON value (restore_backup installs   *)
(* the file's "snippets" value unchecked).                                   *)

Entry(t) == [kind |-> "dict", text |-> t]
NoTextEntry == [kind |-> "notext", text |-> <<>>]
NonMappingEntry == [kind |-> "nonmapping", text |-> <<>>]

\* SnippetManager.get_all_snippets: the live dictionary
get_all_snippets == snippets

\* SnippetManager.get_snippet: dict.get, None (here "absent") for a missing key
get_snippet(shortcut) ==
    IF shortcut \in DOMAIN snippets THEN snippets[shortcut]
    ELSE [kind |-> "absent", text |-> <<>>]

\* the dictionary d with d[shortcut] = entry
DictSet(d, shortcut, entry) ==
    [k \in DOMAIN d \cup {shortcut} |-> IF k = shortcut THEN entry ELSE d[k]]

\* the dictionary d after del d[shortcut]
DictDel(d, shortcut) == [k \in DOMAIN d \ {shortcut} |-> d[k]]

----------------------------------------------------------------------------
(* Keys delivered to on_key_press *)

\* keys with a character (hasattr(key, 'char') and key.char is not None)
CharKeys == (Letters \cup Digits \cup Punct) \ {" "}
ResetKeys == {"Key.tab", "Key.enter", "Key.esc"}
\* "Key.shift" stands for every key with no character that is none of the others
SpecialKeys == ResetKeys \cup {"Key.space", "Key.backspace", "Key.shift"}

NoChar == "None"

\* char_pressed as computed at lines 1994-1998
char_pressed(key) ==
    IF key \in CharKeys THEN key
    ELSE IF key = "Key.space" THEN " "
    ELSE NoChar

\* the buffer after lines 2010-2013
EditBuffer(buf, key) ==
    IF key = "Key.backspace" THEN DropLast(buf)
    ELSE IF char_pressed(key) # NoChar THEN buf \o <<char_pressed(key)>>
    ELSE buf

max_buffer == 60

\* TrimBuffer with a fault: it keeps the front of the buffer
TrimBufferFront(buf) ==
    IF Len(buf) > max_buffer THEN SubSeq(buf, 1, max_buffer) ELSE buf

\* lines 2016-2018
TrimBuffer(buf) ==
    IF Len(buf) > max_buffer THEN LastN(buf, max_buffer) ELSE buf

----------------------------------------------------------------------------
(* The match scan of on_key_press *)

RECURSIVE SortedShortestFirst(_)
\* possible_shortcuts with a fault: it sorts without reverse=True
SortedShortestFirst(keys) ==
    IF keys = {} THEN <<>>
    ELSE LET k == CHOOSE k \in keys : \A j \in keys : Len(k) <= Len(j)
         IN  <<k>> \o SortedShortestFirst(keys \ {k})

RECURSIVE possible_shortcuts(_)
\* sorted(current_snippets.keys(), key=len, reverse=True).  Keys of equal
\* length keep the dictionary's order, which the model does not carry: two
\* distinct keys of one length are never both suffixes of the buffer, so the
\* scan's result does not depend on it.
possible_shortcuts(keys) ==
    IF keys = {} THEN <<>>
    ELSE LET k == CHOOSE k \in keys : \A j \in keys : Len(j) <= Len(k)
         IN  <<k>> \o possible_shortcuts(keys \ {k})

\* is_command_like with a fault: no shortcut is command-like
is_command_like_never(shortcut) == FALSE

\* line 2029
is_command_like(shortcut) ==
    IF shortcut # <<>> THEN ~isalnum(shortcut[1]) ELSE FALSE

\* should_expand with a fault: no word-boundary test
should_expand_always(buf, shortcut) == TRUE

\* lines 2031-2043, for a shortcut the buffer ends with
should_expand(buf, shortcut) ==
    IF is_command_like(shortcut) THEN TRUE
    ELSE LET idx == rfind(buf, shortcut)
         IN  \/ idx = 0
             \/ idx > 0 /\ ~isalnum(buf[idx])

NoMatch == [kind |-> "none", shortcut |-> <<>>, text |-> <<>>]
Raised == [kind |-> "raised", shortcut |-> <<>>, text |-> <<>>]

\* lines 2046-2047: snippet_data["text"] raises KeyError on a mapping without
\* the field and TypeError on a value that is no mapping
ReadText(snips, shortcut) ==
    IF snips[shortcut].kind = "dict"
    THEN [kind |-> "match", shortcut |-> shortcut, text |-> snips[shortcut].text]
    ELSE Raised

RECURSIVE ScanShortcuts(_, _, _)
\* the for loop of lines 2026-2054 over the sorted keys: the first key the
\* buffer ends with and that should expand ends the scan
ScanShortcuts(order, buf, snips) ==
    IF order = <<>> THEN NoMatch
    ELSE LET shortcut == Head(order)
         IN  IF endswith(buf, shortcut) /\ should_expand(buf, shortcut)
             THEN ReadText(snips, shortcut)
             ELSE ScanShortcuts(Tail(order), buf, snips)

\* lines 2020-2054 on the edited buffer
MatchBuffer(buf, snips) ==
    ScanShortcuts(possible_shortcuts(DOMAIN snips), buf, snips)

----------------------------------------------------------------------------
(* process_placeholders: the {input:...} pass.  The literal, clipboard and   *)
(* random passes (lines 1683-1706) leave a text that holds none of their     *)
(* tokens as it is; the snippet texts of these runs hold none.               *)

InputOpen == <<"{", "i", "n", "p", "u", "t", ":">>

\* str.find(t, from): the lowest 0-based index >= from at which t occurs, or -1
find(s, t, from) ==
    LET occ == {i \in from..(Len(s) - Len(t)) : SubSeq(s, i + 1, i + Len(t)) = t}
    IN  IF occ = {} THEN -1 ELSE CHOOSE i \in occ : \A j \in occ : i <= j

\* s.replace(old, new, 1)
replace_first(s, old, new) ==
    LET i == find(s, old, 0)
    IN  IF i = -1 THEN s
        ELSE SubSeq(s, 1, i) \o new \o SubSeq(s, i + Len(old) + 1, Len(s))

RECURSIVE input_matches(_, _)
\* list(re.finditer(r"\{input:([^}]*)\}", s)) from the 1-based position i on:
\* each match with its full text (group 0) and its prompt (group 1)
input_matches(s, i) ==
    IF i + Len(InputOpen) > Len(s) THEN <<>>
    ELSE LET close == find(s, <<"}">>, i + Len(InputOpen) - 1)
         IN  IF SubSeq(s, i, i + Len(InputOpen) - 1) = InputOpen /\ close # -1
             THEN <<[ph |-> SubSeq(s, i, close + 1),
                     prompt |-> SubSeq(s, i + Len(InputOpen), close)]>>
                  \o input_matches(s, close + 2)
             ELSE input_matches(s, i + 1)

RECURSIVE substitute_inputs(_, _, _)
\* lines 1720-1721: each collected (placeholder, value) pair replaces the
\* first occurrence of the placeholder's text
substitute_inputs(result, matches, values) ==
    IF matches = <<>> THEN result
    ELSE substitute_inputs(replace_first(result, Head(matches).ph, Head(values)),
                           Tail(matches), Tail(values))

----------------------------------------------------------------------------
(* The expansion coordinator and the status bar *)

Status(msg, shortcut) == [msg |-> msg, shortcut |-> shortcut]

\* a callback scheduled with root.after(0, ...)
ExpandCallback(shortcut, text) ==
    [kind |-> "expand", shortcut |-> shortcut, text |-> text,
     value |-> Status("", <<>>)]
\* StatusCallback with a fault: the callback sets the status "Expanded"
StatusCallbackExpanded(value) ==
    [kind |-> "status", shortcut |-> <<>>, text |-> <<>>,
     value |-> Status("Expanded", value.shortcut)]
\* the callbacks of lines 2136 and 2142
StatusCallback(value) ==
    [kind |-> "status", shortcut |-> <<>>, text |-> <<>>, value |-> value]

Range(s) == {s[i] : i \in 1..Len(s)}

history_max == 10

\* RecordHistory with a fault: it evicts the newest entry
RecordHistoryDropNewest(history, shortcut) ==
    IF shortcut \in Range(history) THEN history
    ELSE IF Len(history) + 1 > history_max THEN history
    ELSE Append(history, shortcut)

\* lines 2066-2069 (and 1422-1425): append if absent, then pop(0) past ten
RecordHistory(history, shortcut) ==
    IF shortcut \in Range(history) THEN history
    ELSE LET appended == Append(history, shortcut)
         IN  IF Len(appended) > history_max THEN Tail(appended) ELSE appended

\* list.remove(shortcut) for a list without duplicates
RemoveFromHistory(history, shortcut) ==
    SelectSeq(history, LAMBDA h : h # shortcut)

\* What replace_text can do.  "ok": every step succeeds.  "inject_raises": a
\* step of the clipboard path (lines 2111-2125) raises and is caught at line
\* 2134.  "raises": a keyboard-controller call outside that try block raises
\* and the exception leaves replace_text (or, before replace_text is called,
\* the widgets of an input dialog cannot be built and the exception leaves
\* process_placeholders).
ReplaceOutcomes == {"ok", "inject_raises", "raises"}

\* replace_text_callbacks with a fault: nothing is reported
replace_text_callbacks_silent(shortcut, outcome) == <<>>

\* the callbacks replace_text schedules (lines 2136, 2142); the two that only
\* recolour the status indicator (lines 2137, 2143) are left out with the
\* indicator
replace_text_callbacks(shortcut, outcome) ==
    IF outcome = "raises" THEN <<>>
    ELSE IF CLIPBOARD_AVAILABLE
    THEN IF outcome = "inject_raises"
         THEN <<StatusCallback(Status("Clipboard error expanding", shortcut))>>
         ELSE <<>>
    ELSE <<StatusCallback(Status("Clipboard N/A, typed expansion", <<>>))>>

\* FinishExpansion with a fault: the shortcut is recorded after an exception too
FinishExpansionRecordsOnError(queue, shortcut, outcome) ==
    /\ replace_text_callbacks(shortcut, outcome) # <<>>
            => Len(SelectSeq(queue, LAMBDA c : c.kind = "status")) < MaxCallbacks
    /\ after_queue' = queue \o replace_text_callbacks(shortcut, outcome)
    /\ snippet_history' = RecordHistory(snippet_history, shortcut)
    /\ status_var' = IF outcome = "raises" THEN Status("Error expanding", shortcut)
                     ELSE Status("Expanded", shortcut)

\* lines 2064-2074 of _process_and_replace_on_main_thread, from the call of
\* replace_text on, given the queue the run leaves behind it
FinishExpansion(queue, shortcut, outcome) ==
    /\ replace_text_callbacks(shortcut, outcome) # <<>>
            => Len(SelectSeq(queue, LAMBDA c : c.kind = "status")) < MaxCallbacks
    /\ after_queue' = queue \o replace_text_callbacks(shortcut, outcome)
    /\ IF outcome = "raises"
       THEN /\ status_var' = Status("Error expanding", shortcut)
            /\ UNCHANGED snippet_history
       ELSE /\ snippet_history' = RecordHistory(snippet_history, shortcut)
            /\ status_var' = Status("Expanded", shortcut)

----------------------------------------------------------------------------
(* The handlers *)

\* the handler of a step, the key it was given, the shortcut it worked on,
\* how it ended and the buffer it found
Op(op, key, shortcut, result) ==
    [op |-> op, key |-> key, shortcut |-> shortcut, result |-> result,
     before |-> current_input]

\* the expansions scheduled and not yet started
Scheduled == SelectSeq(after_queue, LAMBDA c : c.kind = "expand")

\* BufferAfterDispatch with a fault: it keeps the buffer
BufferKept(buf) == buf

\* line 2053
BufferAfterDispatch(buf) == <<>>

\* BufferAfterReset with a fault: it keeps the buffer
BufferNotReset(buf) == buf

\* lines 2000, 2003, 2006
BufferAfterReset(buf) == <<>>

\* BufferAfterError with a fault: it keeps the buffer
BufferKeptOnError(buf) == buf

\* line 2057
BufferAfterError(buf) == <<>>

\* ListeningGate with a fault: it handles keys while paused
GateOpen(listening) == TRUE

\* line 1990
ListeningGate(listening) == listening

\* ModernTextExpander.on_key_press, run by the listener thread: the whole
\* callback, or, when a match is found, the callback up to the return of
\* root.after at line 2051
on_key_press(key) ==
    /\ listener_pc = "idle"
    /\ IF ~ListeningGate(is_listening)
       THEN /\ last_op' = Op("on_key_press", key, <<>>, "ignored")
            /\ UNCHANGED <<current_input, after_queue, listener_pc>>
       ELSE IF key \in ResetKeys
       THEN /\ last_op' = Op("on_key_press", key, <<>>, "reset")
            /\ current_input' = BufferAfterReset(current_input)
            /\ UNCHANGED <<after_queue, listener_pc>>
       ELSE LET buf == TrimBuffer(EditBuffer(current_input, key))
                m == MatchBuffer(buf, get_all_snippets)
            IN  IF m.kind = "match"
                THEN /\ last_op' = Op("on_key_press", key, m.shortcut, "match")
                     /\ after_queue' =
                            Append(after_queue, ExpandCallback(m.shortcut, m.text))
                     /\ current_input' = buf
                     /\ listener_pc' = "scheduled"
                ELSE IF m.kind = "raised"
                THEN /\ last_op' = Op("on_key_press", key, <<>>, "raised")
                     /\ current_input' = BufferAfterError(buf)
                     /\ UNCHANGED <<after_queue, listener_pc>>
                ELSE /\ last_op' = Op("on_key_press", key, <<>>, "none")
                     /\ current_input' = buf
                     /\ UNCHANGED <<after_queue, listener_pc>>
    /\ UNCHANGED <<is_listening, snippets, snippet_history, status_var, stack,
                   CLIPBOARD_AVAILABLE, call, lifecycle>>

\* lines 2053-2054: the listener thread resets the buffer and returns
on_key_press_return ==
    /\ listener_pc = "scheduled"
    /\ last_op' = Op("on_key_press_return", last_op.key, <<>>, "")
    /\ current_input' = BufferAfterDispatch(current_input)
    /\ listener_pc' = "idle"
    /\ UNCHANGED <<is_listening, snippets, snippet_history, status_var,
                   after_queue, stack, CLIPBOARD_AVAILABLE, call, lifecycle, nkeys>>

\* ModernTextExpander.toggle_listener (the button, or the tray menu's thread)
toggle_listener ==
    /\ last_op' = Op("toggle_listener", "", <<>>, "")
    /\ is_listening' = ~is_listening
    /\ status_var' = IF is_listening THEN Status("Paused", <<>>)
                     ELSE Status("Listening for shortcuts", <<>>)
    /\ UNCHANGED <<current_input, snippets, snippet_history, after_queue, stack,
                   CLIPBOARD_AVAILABLE, call, lifecycle, listener_pc, nkeys>>

\* The Tk loop runs the next root.after callback when it is a status lambda
\* of replace_text.
RunStatusCallback ==
    /\ after_queue # <<>>
    /\ Head(after_queue).kind = "status"
    /\ last_op' = Op("status_callback", "", <<>>, "")
    /\ status_var' = Head(after_queue).value
    /\ after_queue' = Tail(after_queue)
    /\ UNCHANGED <<current_input, is_listening, snippets, snippet_history, stack,
                   CLIPBOARD_AVAILABLE, call, lifecycle, listener_pc, nkeys>>

\* The Tk loop (the main loop, or the loop of a wait_window) runs the next
\* root.after callback when it is _process_and_replace_on_main_thread: up to
\* the first input dialog when the text has input placeholders, to its end
\* when it has none.  What replace_text did is traced, or not, by the caller.
RunExpansion(outcome) ==
    /\ after_queue # <<>>
    /\ Head(after_queue).kind = "expand"
    /\ LET cb == Head(after_queue)
           matches == input_matches(cb.text, 1)
       IN  IF matches = <<>>
           THEN /\ last_op' = Op("expand", "", cb.shortcut, outcome)
                /\ FinishExpansion(Tail(after_queue), cb.shortcut, outcome)
                /\ UNCHANGED stack
           ELSE IF outcome = "raises"
           THEN /\ last_op' = Op("expand", "", cb.shortcut, outcome)
                /\ FinishExpansion(Tail(after_queue), cb.shortcut, outcome)
                /\ UNCHANGED stack
           ELSE /\ Len(stack) < MaxStack
                /\ outcome = "ok"
                /\ last_op' = Op("expand", "", cb.shortcut, "waiting")
                /\ stack' = Append(stack, [shortcut |-> cb.shortcut,
                                           result |-> cb.text,
                                           matches |-> matches,
                                           values |-> <<>>])
                /\ after_queue' = Tail(after_queue)
                /\ UNCHANGED <<snippet_history, status_var>>
    /\ UNCHANGED <<current_input, is_listening, snippets, CLIPBOARD_AVAILABLE, lifecycle,
                   listener_pc, nkeys>>

\* The innermost input dialog closes with the user's text ("" on cancel):
\* _get_expansion_input returns; the next dialog opens, or the expansion runs
\* to its end.
DialogClosed(response, outcome) ==
    /\ stack # <<>>
    /\ LET f == stack[Len(stack)]
           values == Append(f.values, response)
       IN  IF Len(values) < Len(f.matches)
           THEN /\ outcome = "ok"
                /\ last_op' = Op("dialog_closed", "", f.shortcut, "waiting")
                /\ stack' = [stack EXCEPT ![Len(stack)].values = values]
                /\ UNCHANGED <<snippet_history, status_var, after_queue>>
           ELSE /\ last_op' = Op("dialog_closed", "", f.shortcut, outcome)
                /\ stack' = DropLast(stack)
                /\ FinishExpansion(after_queue, f.shortcut, outcome)
    /\ UNCHANGED <<current_input, is_listening, snippets, CLIPBOARD_AVAILABLE, call, lifecycle,
                   listener_pc, nkeys>>

\* refresh_snippet_list ends every successful save, delete and restore: it
\* sets the status to the number of snippets shown, and raises at line 1211 on
\* an entry that is no mapping
StatusAfterRefresh(snips, before) ==
    IF \E k \in DOMAIN snips : snips[k].kind = "nonmapping" THEN before
    ELSE Status("Showing snippets", <<>>)

\* ModernTextExpander.save_snippet with a non-empty shortcut and text, from
\* line 1420 on; saved is what SnippetManager.save_snippets returns.  The
\* editor is out of reach while an input dialog holds the grab.
save_snippet(shortcut, text, saved) ==
    /\ stack = <<>>
    /\ last_op' = Op("save_snippet", "", shortcut,
                     IF saved THEN "saved" ELSE "not saved")
    /\ snippets' = DictSet(snippets, shortcut, Entry(text))
    /\ IF saved
       THEN /\ snippet_history' = RecordHistory(snippet_history, shortcut)
            /\ status_var' = StatusAfterRefresh(snippets', Status("Saved", shortcut))
       ELSE UNCHANGED <<snippet_history, status_var>>
    /\ UNCHANGED <<current_input, is_listening, after_queue, stack,
                   CLIPBOARD_AVAILABLE, call, lifecycle, listener_pc, nkeys>>

\* ModernTextExpander.delete_snippet of an existing snippet, confirmed
delete_snippet(shortcut, saved) ==
    /\ stack = <<>>
    /\ shortcut # <<>>
    /\ shortcut \in DOMAIN snippets
    /\ last_op' = Op("delete_snippet", "", shortcut,
                     IF saved THEN "saved" ELSE "not saved")
    /\ snippets' = DictDel(snippets, shortcut)
    /\ IF saved
       THEN /\ snippet_history' = RemoveFromHistory(snippet_history, shortcut)
            /\ status_var' = StatusAfterRefresh(snippets', Status("Deleted", shortcut))
       ELSE UNCHANGED <<snippet_history, status_var>>
    /\ UNCHANGED <<current_input, is_listening, after_queue, stack,
                   CLIPBOARD_AVAILABLE, call, lifecycle, listener_pc, nkeys>>

\* ModernTextExpander.restore_backup of a file with a "snippets" key, confirmed
restore_backup(backup) ==
    /\ stack = <<>>
    /\ last_op' = Op("restore_backup", "", <<>>, "")
    /\ snippets' = backup
    /\ status_var' = StatusAfterRefresh(backup, status_var)
    /\ UNCHANGED <<current_input, is_listening, snippet_history, after_queue,
                   stack, CLIPBOARD_AVAILABLE, call, lifecycle, listener_pc, nkeys>>

----------------------------------------------------------------------------
(* The application: the listener thread against the Tk thread *)

TextPlain == <<"h", "i">>
TextInput == InputOpen \o <<"a", "}">>

\* snippets.json as loaded at construction
LoadedSnippets ==
    (<<"/", "s">> :> Entry(TextInput)) @@ (<<"s">> :> Entry(TextPlain))

\* snippets.json holding an entry without a "text" field
MalformedSnippets ==
    (<<"/", "s">> :> NoTextEntry) @@ (<<"s">> :> Entry(TextPlain))

\* a backup file: one more snippet, and one that is no mapping
BackupSnippets ==
    (<<"x">> :> Entry(TextPlain)) @@ (<<"s">> :> Entry(TextPlain))
    @@ (<<"/", "s">> :> NonMappingEntry)

Keys == {"/", "s", "Key.backspace"} \cup ResetKeys
Responses == {<<>>, <<"a">>}

\* no call is traced
NoCall == [fn |-> "none"]

\* the state after ModernTextExpander.__init__ with the listener started,
\* and then with buf typed and the shortcuts of hist expanded or saved
InitWith(snips, buf, hist) ==
    /\ current_input = buf
    /\ is_listening = TRUE
    /\ snippets = snips
    /\ snippet_history = hist
    /\ status_var = Status("Listening for shortcuts", <<>>)
    /\ after_queue = <<>>
    /\ stack = <<>>
    /\ CLIPBOARD_AVAILABLE \in BOOLEAN
    /\ listener_pc = "idle"
    /\ last_op = Op("init", "", <<>>, "")
    /\ nkeys = 0
    /\ call = NoCall
    /\ listener = "running"
    /\ mouse_listener = "running"
    /\ process = "running"

\* the state after ModernTextExpander.__init__ with the listener started
InitApp(snips) == InitWith(snips, <<>>, <<>>)

Init == \E snips \in {LoadedSnippets, MalformedSnippets} : InitApp(snips)

\* a key event; the model stops typing at MaxInput characters and stops
\* the listener while MaxQueue expansions are scheduled
KeyFrom(keys) ==
    \E key \in keys :
        /\ char_pressed(key) # NoChar => Len(current_input) < MaxInput
        /\ Len(Scheduled) < MaxQueue
        /\ on_key_press(key)
        /\ UNCHANGED nkeys

KeyPress == KeyFrom(Keys)

Expand == \E outcome \in ReplaceOutcomes :
              RunExpansion(outcome) /\ UNCHANGED call

Dialog ==
    \E response \in Responses, outcome \in ReplaceOutcomes :
        DialogClosed(response, outcome)

Next ==
    \/ KeyPress
    \/ on_key_press_return
    \/ toggle_listener
    \/ Expand
    \/ RunStatusCallback
    \/ Dialog

Spec == Init /\ [][Next]_vars

----------------------------------------------------------------------------
(* Claims on the listener callback and the coordinator, under Spec *)

\* a step of on_key_press that found the listener active
HandledKey == last_op'.op = "on_key_press" /\ is_listening

\* the expansions dispatched and not yet completed
InFlight == Len(Scheduled) + Len(stack)

\* a step that completed an expansion without an exception
Completed(op) ==
    /\ op.op \in {"expand", "dialog_closed"}
    /\ op.result \in {"ok", "inject_raises"}

\* C5: a Tab, Enter or Escape key event (handled while listening) sets the
\* buffer to empty and dispatches no expansion, whatever the buffer held.
C5_ResetKeysClear ==
    [][(HandledKey /\ last_op'.key \in ResetKeys)
            => /\ current_input' = <<>>
               /\ after_queue' = after_queue
               /\ listener_pc' = "idle"]_vars

\* C5 witness: a reset key was handled on a non-empty buffer
C5_Witness ==
    /\ last_op.op = "on_key_press"
    /\ last_op.key \in ResetKeys
    /\ last_op.result = "reset"
    /\ last_op.before # <<>>
    /\ current_input = <<>>

\* C6 as claimed: the buffer is reset before the deferred work for the
\* dispatched match starts, i.e. while the dispatching callback has not yet
\* reset the buffer its expansion is still waiting to run.
C6_ResetBeforeDeferredStarts ==
    listener_pc = "scheduled" => Scheduled # <<>>

\* C6 amended: when on_key_press dispatches a match the buffer is empty when
\* that callback returns, no other handler changes the buffer and no key is
\* handled before the return, so the next keystroke is matched against a
\* buffer without the dispatched shortcut.
C6_BufferEmptyOnReturn ==
    [][/\ last_op'.op = "on_key_press_return" => current_input' = <<>>
       /\ last_op'.op = "on_key_press" => listener_pc = "idle"
       /\ last_op'.op \notin {"on_key_press", "on_key_press_return"}
            => current_input' = current_input
       /\ (last_op'.op = "on_key_press" /\ Len(after_queue') > Len(after_queue))
            => listener_pc' = "scheduled"]_vars

\* C6 witness: the callback that dispatched a match has returned, the buffer
\* that ended with the shortcut is empty
C6_Witness ==
    /\ last_op.op = "on_key_press_return"
    /\ last_op.before # <<>>
    /\ current_input = <<>>
    /\ listener_pc = "idle"

\* C7: at most one expansion is in flight (dispatched and not yet completed)
\* at any time.
C7_OneInFlight == InFlight <= 1

\* C8: while is_listening is false a key event leaves the buffer unchanged
\* and dispatches nothing; toggling the listener leaves the scheduled and the
\* running expansions as they are, and an expansion that completes records
\* its shortcut and sets the status whatever is_listening is.
C8_PausedKeysIgnored ==
    [][/\ (last_op'.op = "on_key_press" /\ ~is_listening)
            => /\ current_input' = current_input
               /\ after_queue' = after_queue
               /\ listener_pc' = listener_pc
       /\ last_op'.op = "toggle_listener"
            => /\ after_queue' = after_queue
               /\ stack' = stack
               /\ snippet_history' = snippet_history
       /\ Completed(last_op')
            => /\ last_op'.shortcut \in Range(snippet_history')
               /\ status_var' = Status("Expanded", last_op'.shortcut)]_vars

\* C8 witness: an expansion dispatched before the pause completed during it
C8_Witness ==
    /\ ~is_listening
    /\ Completed(last_op)
    /\ last_op.shortcut \in Range(snippet_history)
    /\ status_var = Status("Expanded", last_op.shortcut)

\* C9: when on_key_press raises after the is_listening check (the entry of
\* the matched shortcut has no "text" field or is no mapping), the callback
\* returns normally, dispatches nothing and leaves the buffer empty.
C9_ErrorResetsBuffer ==
    [][(last_op'.op = "on_key_press" /\ last_op'.result = "raised")
            => /\ current_input' = <<>>
               /\ after_queue' = after_queue
               /\ listener_pc' = "idle"
               /\ \E k \in DOMAIN snippets : snippets[k].kind # "dict"]_vars

\* C9 witness: a key event raised on a non-empty buffer
C9_Witness ==
    /\ last_op.op = "on_key_press"
    /\ last_op.result = "raised"
    /\ last_op.before # <<>>
    /\ current_input = <<>>

\* a step of _process_and_replace_on_main_thread that ended in its except
\* clause
Failed(op) ==
    /\ op.op \in {"expand", "dialog_closed"}
    /\ op.result = "raises"

\* C11: when process_placeholders or replace_text raises inside
\* _process_and_replace_on_main_thread the run ends with the status "Error
\* expanding: <shortcut>", the history and the listener's state (flag,
\* buffer, position) as they were; the key event that follows is handled as
\* any other.
C11_ExpansionErrorCaught ==
    [][/\ Failed(last_op')
            => /\ status_var' = Status("Error expanding", last_op'.shortcut)
               /\ snippet_history' = snippet_history
               /\ is_listening' = is_listening
               /\ listener_pc' = listener_pc
               /\ current_input' = current_input
       /\ (Failed(last_op) /\ HandledKey /\ last_op'.key \notin ResetKeys)
            => \/ /\ last_op'.result \in {"none", "match"}
                  /\ current_input' =
                         TrimBuffer(EditBuffer(current_input, last_op'.key))
               \/ last_op'.result = "raised" /\ current_input' = <<>>]_vars

\* C11 witness: after a failed expansion a key event has dispatched a match
C11_Witness ==
    /\ last_op.op = "on_key_press"
    /\ last_op.result = "match"
    /\ status_var.msg = "Error expanding"
    /\ status_var.shortcut \notin Range(snippet_history)

----------------------------------------------------------------------------
(* The application with the snippet editor at work *)

EditorShortcuts == {<<"x">>, <<"/", "s">>}

Save == \E shortcut \in EditorShortcuts, saved \in BOOLEAN :
            save_snippet(shortcut, TextPlain, saved)

Delete == \E shortcut \in DOMAIN snippets, saved \in BOOLEAN :
              delete_snippet(shortcut, saved)

Restore == restore_backup(BackupSnippets)

\* expansions whose replace_text succeeds
ExpandOk == RunExpansion("ok") /\ UNCHANGED call

DialogOk == \E response \in Responses : DialogClosed(response, "ok")

EditKeys == {"/", "s", "x", "Key.backspace"}

EditKey == KeyFrom(EditKeys)

NextEdit ==
    \/ EditKey
    \/ on_key_press_return
    \/ ExpandOk
    \/ DialogOk
    \/ Save
    \/ Delete
    \/ Restore

InitEdit == InitApp(LoadedSnippets) /\ CLIPBOARD_AVAILABLE

SpecEdit == InitEdit /\ [][NextEdit]_vars

\* C4: a Backspace key event (handled while listening) leaves the buffer
\* equal to the previous buffer without its last character and never
\* dispatches an expansion.
C4_BackspaceNeverDispatches ==
    [][(HandledKey /\ last_op'.key = "Key.backspace")
            => /\ current_input' = DropLast(current_input)
               /\ after_queue' = after_queue]_vars

----------------------------------------------------------------------------
(* The listener on a buffer near its capacity *)

CapSnippets ==
    (<<"/", "s">> :> Entry(TextPlain)) @@ (<<"s">> :> Entry(<<"h">>))

\* "b" followed by n - 1 times "x"
Filler(n) == [i \in 1..n |-> IF i = 1 THEN "b" ELSE "x"]

CapKeys == {"a", "s", "/", "Key.space", "Key.backspace", "Key.esc", "Key.shift"}

InitCap ==
    /\ \E n \in (max_buffer - CapSlack)..max_buffer :
           InitWith(CapSnippets, Filler(n), <<>>)
    /\ CLIPBOARD_AVAILABLE

CapKey ==
    \E key \in CapKeys :
        /\ nkeys < MaxCapKeys
        /\ on_key_press(key)
        /\ nkeys' = nkeys + 1

NextCap ==
    \/ CapKey
    \/ on_key_press_return
    \/ ExpandOk

SpecCap == InitCap /\ [][NextCap]_vars

\* C1: after any key event handled by on_key_press the buffer has at most 60
\* characters, and a key with a character leaves the last 60 characters of
\* the previous buffer followed by that character (until the reset that
\* follows a dispatch): the front of the buffer is what is dropped.
C1_BufferCapacity ==
    [][/\ last_op'.op \in {"on_key_press", "on_key_press_return"}
            => Len(current_input') <= max_buffer
       /\ (/\ HandledKey
           /\ char_pressed(last_op'.key) # NoChar
           /\ last_op'.result \in {"none", "match"})
            => current_input' =
                   LastN(current_input \o <<char_pressed(last_op'.key)>>,
                         max_buffer)]_vars

\* C1 witness: a character typed on a full buffer pushed the oldest one out
C1_Witness ==
    /\ last_op.op = "on_key_press"
    /\ last_op.key = "a"
    /\ Len(last_op.before) = max_buffer
    /\ last_op.before[1] = "b"
    /\ Len(current_input) = max_buffer
    /\ current_input[1] = "x"
    /\ current_input[max_buffer] = "a"

----------------------------------------------------------------------------
(* The matcher on dictionaries whose shortcuts are suffixes of one another *)

SigSnippets ==
    (<<"/", "s", "i", "g">> :> Entry(TextPlain)) @@
    (<<"s", "i", "g">> :> Entry(<<"h">>))

SlashSnippets ==
    (<<"/", "/", "s">> :> Entry(TextPlain)) @@
    (<<"/", "s">> :> Entry(<<"h">>)) @@
    (<<"s">> :> Entry(<<"a">>))

MatchKeys == {"/", "s", "i", "g", "x"}

InitMatch ==
    /\ \E snips \in {SigSnippets, SlashSnippets} : InitApp(snips)
    /\ CLIPBOARD_AVAILABLE

MatchKey ==
    \E key \in MatchKeys :
        /\ char_pressed(key) # NoChar => Len(current_input) < MaxMatchInput
        /\ Len(Scheduled) < MaxQueue
        /\ on_key_press(key)
        /\ UNCHANGED nkeys

NextMatch ==
    \/ MatchKey
    \/ on_key_press_return
    \/ ExpandOk

SpecMatch == InitMatch /\ [][NextMatch]_vars

\* the shortcut is a suffix of the buffer and starts a word there, or is
\* command-like
Expandable(buf, shortcut) ==
    /\ endswith(buf, shortcut)
    /\ shortcut # <<>>
    /\ \/ ~isalnum(shortcut[1])
       \/ Len(buf) = Len(shortcut)
       \/ ~isalnum(buf[Len(buf) - Len(shortcut)])

\* the shortcuts of the dictionary that are expandable at the end of buf
Candidates(buf) == {k \in DOMAIN snippets : Expandable(buf, k)}

\* C2: when a key with a character is handled and shortcuts of the
\* dictionary are suffixes of the new buffer and satisfy their expansion
\* condition, the one dispatched is the longest of them, with its text; no
\* key event dispatches more than one expansion, and none is dispatched when
\* there is no such shortcut.
C2_LongestMatchFirst ==
    [][(HandledKey /\ char_pressed(last_op'.key) # NoChar)
            => LET buf == LastN(current_input
                                \o <<char_pressed(last_op'.key)>>, max_buffer)
                   cands == Candidates(buf)
               IN  IF cands = {} THEN after_queue' = after_queue
                   ELSE \E k \in cands :
                           /\ \A j \in cands : Len(j) <= Len(k)
                           /\ after_queue' =
                                Append(after_queue,
                                       ExpandCallback(k, snippets[k].text))]_vars

\* C2 witness: the longest of three expandable suffixes has been dispatched
C2_Witness ==
    /\ last_op.op = "on_key_press"
    /\ last_op.result = "match"
    /\ listener_pc = "scheduled"
    /\ Cardinality(Candidates(current_input)) = 3
    /\ \A j \in Candidates(current_input) : Len(j) <= Len(last_op.shortcut)
    /\ after_queue[Len(after_queue)].shortcut = last_op.shortcut

xsig == <<"x", "s", "i", "g">>

\* C3: a key event dispatches a word-like shortcut only when the buffer ends
\* with it and the suffix starts at position 0 or after a non-alphanumeric
\* character; with the shortcuts "/sig" and "sig" the buffer "xsig"
\* dispatches nothing, and "/sig" is dispatched only from a buffer that ends
\* with "/sig".
C3_WordBoundary ==
    [][HandledKey
            => /\ (/\ Len(after_queue') > Len(after_queue)
                   /\ isalnum(last_op'.shortcut[1]))
                    => /\ endswith(current_input', last_op'.shortcut)
                       /\ \/ Len(current_input') = Len(last_op'.shortcut)
                          \/ ~isalnum(current_input'[Len(current_input')
                                            - Len(last_op'.shortcut)])
               /\ (DOMAIN snippets = DOMAIN SigSnippets /\ current_input' = xsig)
                    => after_queue' = after_queue
               /\ (/\ Len(after_queue') > Len(after_queue)
                   /\ last_op'.shortcut = <<"/", "s", "i", "g">>)
                    => endswith(current_input', <<"/", "s", "i", "g">>)]_vars

\* C3 witness: "g" completed the buffer "xsig" and nothing was dispatched
C3_Witness ==
    /\ last_op.op = "on_key_press"
    /\ last_op.key = "g"
    /\ last_op.result = "none"
    /\ current_input = xsig
    /\ <<"s", "i", "g">> \in DOMAIN snippets
    /\ after_queue = <<>>

----------------------------------------------------------------------------
(* The recent-use history near its capacity *)

\* ten shortcuts saved and used before
HistoryFill ==
    <<<<"0">>, <<"1">>, <<"2">>, <<"3">>, <<"4">>, <<"5">>, <<"6">>, <<"7">>,
      <<"8">>, <<"9">>>>

HistorySnippets ==
    [k \in Range(HistoryFill) \cup {<<"s">>, <<"/", "s">>} |-> Entry(TextPlain)]

InitHist ==
    /\ \E n \in (history_max - 1)..history_max :
           InitWith(HistorySnippets, <<>>, SubSeq(HistoryFill, 1, n))
    /\ CLIPBOARD_AVAILABLE

HistKeys == {"/", "s"}

HistKey ==
    \E key \in HistKeys :
        /\ Len(current_input) < MaxInput
        /\ Len(Scheduled) < MaxQueue
        /\ on_key_press(key)
        /\ UNCHANGED nkeys

SaveHist ==
    \E shortcut \in {<<"x">>, <<"0">>}, saved \in BOOLEAN :
        save_snippet(shortcut, TextPlain, saved)

DeleteHist ==
    \E shortcut \in {<<"x">>, <<"1">>}, saved \in BOOLEAN :
        delete_snippet(shortcut, saved)

NextHist ==
    \/ HistKey
    \/ on_key_press_return
    \/ ExpandOk
    \/ SaveHist
    \/ DeleteHist

SpecHist == InitHist /\ [][NextHist]_vars

\* a step that records its shortcut in the history
Records(op) ==
    \/ Completed(op)
    \/ op.op = "save_snippet" /\ op.result = "saved"

\* C10: the history never holds more than 10 shortcuts; recording a shortcut
\* that is absent from a history of 10 evicts the oldest entry and appends
\* the new one, recording one that is present changes nothing, and below 10
\* the new one is appended.
C10_HistoryBounded ==
    [][/\ Len(snippet_history') <= history_max
       /\ Records(last_op')
            => LET sc == last_op'.shortcut
               IN  IF sc \in Range(snippet_history)
                   THEN snippet_history' = snippet_history
                   ELSE IF Len(snippet_history) = history_max
                   THEN snippet_history' = Tail(snippet_history) \o <<sc>>
                   ELSE snippet_history' = Append(snippet_history, sc)]_vars

\* C10 witness: a recording on a full history evicted its oldest entry
C10_Witness ==
    /\ Records(last_op)
    /\ Len(snippet_history) = history_max
    /\ snippet_history[history_max] = last_op.shortcut
    /\ snippet_history[1] = HistoryFill[2]
    /\ HistoryFill[1] \notin Range(snippet_history)

----------------------------------------------------------------------------
(* replace_text: what it does to the keyboard controller and the clipboard, *)
(* in order.  KEYBOARD_AVAILABLE holds wherever a listener runs.            *)

\* a key pressed and released, with the modifier held
KeyEvent(k) == [op |-> k, text |-> <<>>]
\* pyperclip.paste() and pyperclip.copy(t)
ClipboardRead == [op |-> "pyperclip.paste", text |-> <<>>]
ClipboardWrite(t) == [op |-> "pyperclip.copy", text |-> t]
\* kb_controller.type(t)
TypeText(t) == [op |-> "type", text |-> t]

\* Select with a fault: one press whatever the shortcut
SelectOnce(shortcut) == <<KeyEvent("shift+left")>>

\* lines 2089-2093
Select(shortcut) == [i \in 1..Len(shortcut) |-> KeyEvent("shift+left")]

\* lines 2098-2099
Delete_shortcut == <<KeyEvent("backspace")>>

\* paste_shortcut with a fault: ctrl+v on every platform
paste_shortcut_ctrl(platform) == KeyEvent("ctrl+v")

\* lines 2116-2123
paste_shortcut(platform) ==
    IF platform = "darwin" THEN KeyEvent("cmd+v") ELSE KeyEvent("ctrl+v")

Platforms == {"darwin", "linux"}

\* The call of replace_text that raises, if one does: the first key of the
\* selection, the backspace, pyperclip.paste at line 2107, pyperclip.copy at
\* line 2112, the paste shortcut, pyperclip.copy at line 2130,
\* kb_controller.type at line 2141.
FailurePoints ==
    IF CLIPBOARD_AVAILABLE
    THEN {"none", "select", "backspace", "read", "write", "paste", "restore"}
    ELSE {"none", "select", "backspace", "type"}

\* how the call ends for _process_and_replace_on_main_thread
Outcome(fail) ==
    IF fail \in {"select", "backspace", "type"} THEN "raises"
    ELSE IF fail \in {"write", "paste"} THEN "inject_raises"
    ELSE "ok"

\* what a call of replace_text has done when it ends: the operations that
\* succeeded, the clipboard, whether an exception left it, what it logged
Effects(events, clipboard, raised, logged) ==
    [events |-> events, clipboard |-> clipboard, raised |-> raised,
     logged |-> logged]

\* clipboard_path with a fault: it types the replacement instead
clipboard_path_typed(replacement, clip, platform, fail) ==
    Effects(<<TypeText(replacement)>>, clip, FALSE, <<"Expanded shortcut">>)

\* lines 2103-2137, after the selection and the backspace
clipboard_path(replacement, clip, platform, fail) ==
    LET read == IF fail = "read" THEN <<>> ELSE <<ClipboardRead>>
        read_log == IF fail = "read"
                    THEN <<"Could not read original clipboard">> ELSE <<>>
        failed == <<"Clipboard operation failed during replacement">>
        expanded == <<"Expanded shortcut">>
    IN  IF fail = "write"
        THEN Effects(read, clip, FALSE, read_log \o failed \o expanded)
        ELSE IF fail = "paste"
        THEN Effects(read \o <<ClipboardWrite(replacement)>>, replacement,
                     FALSE, read_log \o failed \o expanded)
        ELSE IF fail = "read"
        THEN Effects(<<ClipboardWrite(replacement), paste_shortcut(platform)>>,
                     replacement, FALSE, read_log \o expanded)
        ELSE IF fail = "restore"
        THEN Effects(read \o <<ClipboardWrite(replacement),
                               paste_shortcut(platform)>>,
                     replacement, FALSE,
                     <<"Could not restore clipboard">> \o expanded)
        ELSE Effects(read \o <<ClipboardWrite(replacement),
                               paste_shortcut(platform), ClipboardWrite(clip)>>,
                     clip, FALSE, expanded)

\* lines 2138-2143
typing_path(replacement, clip, fail) ==
    IF fail = "type"
    THEN Effects(<<>>, clip, TRUE, <<"Clipboard module not available">>)
    ELSE Effects(<<TypeText(replacement)>>, clip, FALSE,
                 <<"Clipboard module not available", "Expanded shortcut">>)

\* ModernTextExpander.replace_text, lines 2085-2145
replace_text(shortcut, replacement, clip, platform, fail) ==
    IF fail = "select" THEN Effects(<<>>, clip, TRUE, <<>>)
    ELSE IF fail = "backspace" THEN Effects(Select(shortcut), clip, TRUE, <<>>)
    ELSE LET inject == IF CLIPBOARD_AVAILABLE
                       THEN clipboard_path(replacement, clip, platform, fail)
                       ELSE typing_path(replacement, clip, fail)
         IN  [inject EXCEPT
                 !.events = Select(shortcut) \o Delete_shortcut \o inject.events]

----------------------------------------------------------------------------
(* The application with the calls of replace_text traced *)

ClipContents == {<<>>, <<"c">>}

\* _process_and_replace_on_main_thread on a text without input placeholders,
\* with the call of replace_text it makes
ExpandTraced ==
    \E fail \in FailurePoints, clip \in ClipContents, platform \in Platforms :
        /\ after_queue # <<>>
        /\ RunExpansion(Outcome(fail))
        /\ LET cb == Head(after_queue)
           IN  call' = [fn |-> "replace_text",
                        shortcut |-> cb.shortcut,
                        replacement |-> cb.text,
                        clip |-> clip,
                        platform |-> platform,
                        fail |-> fail,
                        ret |-> replace_text(cb.shortcut, cb.text, clip,
                                             platform, fail)]

InitReplace == InitApp(CapSnippets)

NextReplace ==
    \/ KeyPress
    \/ on_key_press_return
    \/ ExpandTraced
    \/ RunStatusCallback

SpecReplace == InitReplace /\ [][NextReplace]_vars

\* a step that ran replace_text
Replaced == last_op'.op = "expand" /\ call'.fn = "replace_text"

\* the operations of the Inject step
InjectOps ==
    {"pyperclip.paste", "pyperclip.copy", "cmd+v", "ctrl+v", "type"}

\* C12 as claimed: after a completed expansion the buffer is empty.
C12_BufferEmptyAfterExpansion == Completed(last_op) => current_input = <<>>

\* C12 amended: replace_text emits len(s) shift+left presses, then one
\* backspace, and only then the operations of the Inject step (when a key
\* call raises, a prefix of that sequence); a completed expansion leaves s in
\* the history and the buffer as it was, which is empty when the expansion
\* completes right after the dispatching callback returned.
C12_SelectDeleteInject ==
    [][Replaced
        => LET s == call'.shortcut
               ev == call'.ret.events
               n == Len(s)
           IN  /\ ~call'.ret.raised
                    => /\ Len(ev) > n + 1
                       /\ \A i \in 1..n : ev[i] = KeyEvent("shift+left")
                       /\ ev[n + 1] = KeyEvent("backspace")
                       /\ \A i \in (n + 2)..Len(ev) : ev[i].op \in InjectOps
               /\ call'.ret.raised
                    => /\ Len(ev) <= n + 1
                       /\ \A i \in 1..Len(ev) :
                              ev[i] = IF i <= n THEN KeyEvent("shift+left")
                                      ELSE KeyEvent("backspace")
               /\ Completed(last_op')
                    => /\ s \in Range(snippet_history')
                       /\ current_input' = current_input
                       /\ last_op.op = "on_key_press_return"
                            => current_input' = <<>>]_vars

\* C12 witness: "/s" expanded right after its dispatch: two shift+left, one
\* backspace, then the Inject step
C12_Witness ==
    /\ Completed(last_op)
    /\ call.fn = "replace_text"
    /\ call.shortcut = <<"/", "s">>
    /\ Len(call.ret.events) > 3
    /\ call.ret.events[2] = KeyEvent("shift+left")
    /\ call.ret.events[3] = KeyEvent("backspace")
    /\ current_input = <<>>
    /\ <<"/", "s">> \in Range(snippet_history)

\* the operations of the Inject step of a traced call
InjectEvents(c) ==
    SubSeq(c.ret.events, Len(c.shortcut) + 2, Len(c.ret.events))

\* a step that ran replace_text through the selection and the backspace, on
\* the clipboard path
ClipboardPathTaken ==
    /\ Replaced
    /\ CLIPBOARD_AVAILABLE
    /\ call'.fail \notin {"select", "backspace"}

C14_WriteFailureAborts ==
    [][(Replaced /\ call'.fail = "write")
        => LET c == call'
               report == StatusCallback(Status("Clipboard error expanding",
                                               c.shortcut))
           IN  /\ InjectEvents(c) = <<ClipboardRead>>
               /\ c.ret.clipboard = c.clip
               /\ ~c.ret.raised
               /\ \E i \in 1..Len(c.ret.logged) :
                      c.ret.logged[i]
                        = "Clipboard operation failed during replacement"
               /\ after_queue' = Tail(after_queue) \o <<report>>
               /\ Completed(last_op')]_vars

\* C14 witness: a call whose clipboard write failed has returned and its
\* status report waits to run
C14_Witness ==
    /\ call.fn = "replace_text"
    /\ call.fail = "write"
    /\ ~call.ret.raised
    /\ InjectEvents(call) = <<ClipboardRead>>
    /\ after_queue # <<>>
    /\ after_queue[Len(after_queue)].kind = "status"
    /\ after_queue[Len(after_queue)].value.msg = "Clipboard error expanding"

----------------------------------------------------------------------------
(* process_placeholders: the literal, clipboard and random passes *)

\* s.replace(old, new) for a non-empty old
RECURSIVE replace_all(_, _, _)
replace_all(s, old, new) ==
    LET i == find(s, old, 0)
    IN  IF i = -1 THEN s
        ELSE SubSeq(s, 1, i) \o new
             \o replace_all(SubSeq(s, i + Len(old) + 1, Len(s)), old, new)

\* what strftime and the weekday table give at the time of the call
date_text == <<"0", "5", "/", "2", "0", "/", "2", "0", "2", "5">>
time_text == <<"1", "4", ":", "3", "0">>
date_long_text == <<"M", "a", "y", " ", "2", "0", ",", " ", "2", "0", "2", "5">>
weekday_text == <<"T", "u", "e", "s", "d", "a", "y">>

\* lines 1683-1687
replace_literals(text) ==
    replace_all(
        replace_all(
            replace_all(
                replace_all(text, <<"{", "d", "a", "t", "e", "}">>, date_text),
                <<"{", "t", "i", "m", "e", "}">>, time_text),
            <<"{", "d", "a", "t", "e", "_", "l", "o", "n", "g", "}">>, date_long_text),
        <<"{", "w", "e", "e", "k", "d", "a", "y", "}">>, weekday_text)

\* What pyperclip.paste() does in get_clipboard_content: it returns text or
\* raises.
ClipboardRaises == [ok |-> FALSE, text |-> <<>>]
ClipboardHolds(t) == [ok |-> TRUE, text |-> t]

\* get_clipboard_content with a fault: a failed or missing clipboard gives
\* the empty string
get_clipboard_content_empty(paste) == IF paste.ok THEN paste.text ELSE <<>>

\* lines 1674-1681
get_clipboard_content(paste) ==
    IF CLIPBOARD_AVAILABLE
    THEN IF paste.ok THEN paste.text ELSE <<"[", "C", "l", "i", "p", "b", "o", "a", "r", "d", " ", "E", "r", "r", "o", "r", "]">>
    ELSE <<"[", "C", "l", "i", "p", "b", "o", "a", "r", "d", " ", "N", "/", "A", "]">>

\* lines 1689-1690
replace_clipboard(text, paste) ==
    replace_all(text, <<"{", "c", "l", "i", "p", "b", "o", "a", "r", "d", "}">>, get_clipboard_content(paste))

DigitChars == <<"0", "1", "2", "3", "4", "5", "6", "7", "8", "9">>
Whitespace == {" "}

\* int(s) succeeds on a non-empty string of digits
int_ok(s) == s # <<>> /\ \A i \in 1..Len(s) : s[i] \in Digits

\* int(s) of a string of digits
RECURSIVE int(_)
int(s) ==
    IF s = <<>> THEN 0
    ELSE 10 * int(DropLast(s))
         + (CHOOSE n \in 0..9 : DigitChars[n + 1] = s[Len(s)])

\* str(n) of a natural number
RECURSIVE str(_)
str(n) ==
    IF n < 10 THEN <<DigitChars[n + 1]>>
    ELSE str(n \div 10) \o <<DigitChars[(n % 10) + 1]>>

\* s.strip()
RECURSIVE strip(_)
strip(s) ==
    IF s # <<>> /\ s[1] \in Whitespace THEN strip(Tail(s))
    ELSE IF s # <<>> /\ s[Len(s)] \in Whitespace THEN strip(DropLast(s))
    ELSE s

\* s.split("-", 1) of a string that holds a "-"
split_dash(s) ==
    LET i == find(s, <<"-">>, 0)
    IN  <<SubSeq(s, 1, i), SubSeq(s, i + 2, Len(s))>>

\* the first position from i on whose character is not in set
RECURSIVE SpanEnd(_, _, _)
SpanEnd(s, i, set) ==
    IF i <= Len(s) /\ s[i] \in set THEN SpanEnd(s, i + 1, set) ELSE i

RandomOpen == <<"{", "r", "a", "n", "d", "o", "m", ":">>

\* the match of \{random:([0-9]+\s*-\s*[0-9]+)\} at the 1-based position i
random_match(s, i) ==
    LET p0 == i + Len(RandomOpen)
        p1 == SpanEnd(s, p0, Digits)
        p2 == SpanEnd(s, p1, Whitespace)
        p3 == SpanEnd(s, p2 + 1, Whitespace)
        p4 == SpanEnd(s, p3, Digits)
    IN  IF /\ i + Len(RandomOpen) - 1 <= Len(s)
           /\ SubSeq(s, i, p0 - 1) = RandomOpen
           /\ p1 > p0
           /\ p2 <= Len(s) /\ s[p2] = "-"
           /\ p4 > p3
           /\ p4 <= Len(s) /\ s[p4] = "}"
        THEN [ok |-> TRUE, last |-> p4, group0 |-> SubSeq(s, i, p4),
              group1 |-> SubSeq(s, p0, p4 - 1)]
        ELSE [ok |-> FALSE, last |-> i, group0 |-> <<>>, group1 |-> <<>>]

\* randint with a fault: a value above the range
randint_above(min_val, max_val, pick) == max_val + 1

\* random.randint(min_val, max_val): some integer of the range, picked by pick
randint(min_val, max_val, pick) == min_val + (pick % (max_val - min_val + 1))

\* lines 1692-1704
replace_random(m, pick) ==
    LET parts == split_dash(m.group1)
        min_val_str == strip(parts[1])
        max_val_str == strip(parts[2])
    IN  IF int_ok(min_val_str) /\ int_ok(max_val_str)
        THEN IF int(min_val_str) <= int(max_val_str)
             THEN str(randint(int(min_val_str), int(max_val_str), pick))
             ELSE <<"[", "R", "a", "n", "d", "o", "m", " ", "E", "r", "r", "o", "r", ":", " ", "m", "i", "n", "(">> \o str(int(min_val_str))
                  \o <<")", " ", ">", " ", "m", "a", "x", "(">> \o str(int(max_val_str))
                  \o <<")", "]">>
        ELSE <<"[", "R", "a", "n", "d", "o", "m", " ", "E", "r", "r", "o", "r", ":", " ">> \o m.group0 \o <<"]">>

\* line 1706: re.sub over the text from the 1-based position i on
RECURSIVE sub_random(_, _, _)
sub_random(s, i, pick) ==
    IF i > Len(s) THEN <<>>
    ELSE LET m == random_match(s, i)
         IN  IF m.ok
             THEN replace_random(m, pick) \o sub_random(s, m.last + 1, pick)
             ELSE <<s[i]>> \o sub_random(s, i + 1, pick)

\* lines 1683-1706
before_inputs(text, paste, pick) ==
    sub_random(replace_clipboard(replace_literals(text), paste), 1, pick)

----------------------------------------------------------------------------
(* process_placeholders: the input pass, and the whole function *)

\* the prompt _get_expansion_input shows, lines 1730-1733
shown_prompt(prompt_text) ==
    IF prompt_text = <<>> THEN <<"E", "n", "t", "e", "r", " ", "t", "e", "x", "t", ":">>
    ELSE IF prompt_text[Len(prompt_text)] \notin {"?", ":"}
    THEN prompt_text \o <<":">>
    ELSE prompt_text

\* the input requests made for the first n matches
Requests(matches, n) ==
    [i \in 1..n |-> [prompt_text |-> matches[i].prompt,
                     shown |-> shown_prompt(matches[i].prompt)]]

\* ModernTextExpander.process_placeholders.  paste is what pyperclip.paste
\* does, pick what random.randint picks, responses what the input dialogs
\* return in the order they are shown ("" on cancel); the dialog numbered
\* dialog_fails raises while it is built (0: none does).
process_placeholders(text, paste, pick, responses, dialog_fails) ==
    LET result == before_inputs(text, paste, pick)
        matches == input_matches(result, 1)
    IN  IF dialog_fails \in 1..Len(matches)
        THEN [raised |-> TRUE, result |-> <<>>,
              requests |-> Requests(matches, dialog_fails)]
        ELSE [raised |-> FALSE,
              result |-> substitute_inputs(result, matches, responses),
              requests |-> Requests(matches, Len(matches))]

----------------------------------------------------------------------------
(* Templates evaluated one at a time *)

\* a traced call of process_placeholders; each run evaluates one template
Evaluation(text, paste, pick, responses, dialog_fails) ==
    [fn |-> "process_placeholders", text |-> text, paste |-> paste,
     pick |-> pick, responses |-> responses, dialog_fails |-> dialog_fails,
     ret |-> process_placeholders(text, paste, pick, responses, dialog_fails)]

input_a == <<"{", "i", "n", "p", "u", "t", ":", "a", "}">>
input_b == <<"{", "i", "n", "p", "u", "t", ":", "b", "}">>
input_empty == <<"{", "i", "n", "p", "u", "t", ":", "}">>

InputTemplates ==
    {input_a, input_empty, input_a \o input_a, input_a \o <<" ">> \o input_b,
     <<"x">> \o input_b \o <<"x">>}

TemplateResponses == {<<>>, <<"a">>, <<"b">>, input_a, input_b}

\* the sequences of n responses
ResponseSeqs(n) == [1..n -> TemplateResponses]

Paddings == {<<>>, <<" ">>}

\* "{random:a-b}" with the padding around the dash
RandomTemplate(a, b, pad) ==
    RandomOpen \o str(a) \o pad \o <<"-">> \o pad \o str(b) \o <<"}">>

\* random placeholders the pattern of line 1706 does not match
UnmatchedRandom ==
    {<<"{", "r", "a", "n", "d", "o", "m", ":", "1", "-", "}">>,
     <<"{", "r", "a", "n", "d", "o", "m", ":", " ", "1", "-", "2", "}">>,
     <<"{", "r", "a", "n", "d", "o", "m", ":", "1", "-", "2", " ", "}">>,
     <<"{", "r", "a", "n", "d", "o", "m", ":", "a", "-", "b", "}">>}

\* {clipboard}, then a random and an input placeholder
clipboard_random_input ==
    <<"{", "c", "l", "i", "p", "b", "o", "a", "r", "d", "}", "{", "r", "a", "n", "d", "o", "m", ":", "1", "-", "1", "}">> \o input_a

ClipboardTemplates ==
    {clipboard_random_input,
     <<"{", "c", "l", "i", "p", "b", "o", "a", "r", "d", "}">>, <<"{", "c", "l", "i", "p", "b", "o", "a", "r", "d", "}", " ", "{", "c", "l", "i", "p", "b", "o", "a", "r", "d", "}">>, <<"{", "d", "a", "t", "e", "}", " ", "{", "t", "i", "m", "e", "}">>,
     <<"{", "d", "a", "t", "e", "_", "l", "o", "n", "g", "}", "{", "w", "e", "e", "k", "d", "a", "y", "}">>}

Pastes ==
    {ClipboardRaises, ClipboardHolds(<<>>), ClipboardHolds(<<"c">>),
     ClipboardHolds(input_a)}

NoResponses == [i \in 1..MaxResponses |-> <<>>]

EvaluateInputs ==
    /\ call = NoCall
    /\ \E text \in InputTemplates, responses \in ResponseSeqs(MaxResponses),
          dialog_fails \in 0..MaxResponses :
           call' = Evaluation(text, ClipboardHolds(<<>>), 0, responses,
                              dialog_fails)
    /\ last_op' = Op("process_placeholders", "", <<>>, "")
    /\ UNCHANGED <<current_input, is_listening, snippets, snippet_history,
                   status_var, after_queue, stack, CLIPBOARD_AVAILABLE,
                   listener_pc, nkeys, lifecycle>>

EvaluateRandom ==
    /\ call = NoCall
    /\ \E text \in {RandomTemplate(a, b, pad) :
                        a \in 0..MaxRandom, b \in 0..MaxRandom, pad \in Paddings}
                   \cup UnmatchedRandom,
          pick \in 0..MaxRandom :
           call' = Evaluation(text, ClipboardHolds(<<>>), pick, NoResponses, 0)
    /\ last_op' = Op("process_placeholders", "", <<>>, "")
    /\ UNCHANGED <<current_input, is_listening, snippets, snippet_history,
                   status_var, after_queue, stack, CLIPBOARD_AVAILABLE,
                   listener_pc, nkeys, lifecycle>>

EvaluateClipboard ==
    /\ call = NoCall
    /\ \E text \in ClipboardTemplates, paste \in Pastes,
          response \in TemplateResponses :
           call' = Evaluation(text, paste, 0,
                              [i \in 1..MaxResponses |-> response], 0)
    /\ last_op' = Op("process_placeholders", "", <<>>, "")
    /\ UNCHANGED <<current_input, is_listening, snippets, snippet_history,
                   status_var, after_queue, stack, CLIPBOARD_AVAILABLE,
                   listener_pc, nkeys, lifecycle>>

InitPlaceholders == InitApp(LoadedSnippets)

NextPlaceholders ==
    \/ EvaluateInputs
    \/ EvaluateRandom
    \/ EvaluateClipboard

SpecPlaceholders == InitPlaceholders /\ [][NextPlaceholders]_vars

\* a call of process_placeholders that returned
Evaluated == call.fn = "process_placeholders" /\ ~call.ret.raised

\* the text s from the 1-based position i on, with the k-th {input:...}
\* occurrence replaced by the k-th value
RECURSIVE SubstituteByPosition(_, _, _)
SubstituteByPosition(s, i, values) ==
    IF i > Len(s) THEN <<>>
    ELSE LET close == find(s, <<"}">>, i + Len(InputOpen) - 1)
         IN  IF /\ i + Len(InputOpen) - 1 <= Len(s)
                /\ SubSeq(s, i, i + Len(InputOpen) - 1) = InputOpen
                /\ close # -1
             THEN Head(values) \o SubstituteByPosition(s, close + 2, Tail(values))
             ELSE <<s[i]>> \o SubstituteByPosition(s, i + 1, values)

\* C15: for a template with n {input:...} occurrences process_placeholders
\* makes n input requests, in the order of the occurrences, and returns the
\* text with the i-th occurrence replaced by the i-th response, whatever the
\* responses are.
C15_EachOccurrenceItsResponse ==
    (Evaluated /\ call.text \in InputTemplates)
        => LET occurrences == input_matches(call.text, 1)
           IN  /\ Len(call.ret.requests) = Len(occurrences)
               /\ \A i \in 1..Len(occurrences) :
                      call.ret.requests[i].prompt_text = occurrences[i].prompt
               /\ call.ret.result
                    = SubstituteByPosition(call.text, 1, call.responses)

\* the visible marker of a random placeholder whose range is empty
RandomErrorMarker(a, b) ==
    <<"[", "R", "a", "n", "d", "o", "m", " ", "E", "r", "r", "o", "r", ":", " ", "m", "i", "n", "(">> \o str(a) \o <<")", " ", ">", " ", "m", "a", "x", "(">> \o str(b) \o <<")", "]">>

\* C16: process_placeholders turns {random:a-b} into the decimal string of
\* an integer r with a <= r <= b when a <= b (a = b included), and into the
\* marker "[Random Error: min(a) > max(b)]" when a > b; it does not raise.
C16_RandomInRange ==
    \A a \in 0..MaxRandom, b \in 0..MaxRandom, pad \in Paddings :
        (/\ call.fn = "process_placeholders"
         /\ call.text = RandomTemplate(a, b, pad))
            => /\ ~call.ret.raised
               /\ IF a <= b
                  THEN /\ int_ok(call.ret.result)
                       /\ int(call.ret.result) \in a..b
                       /\ call.ret.result = str(int(call.ret.result))
                  ELSE call.ret.result = RandomErrorMarker(a, b)

\* C16 witness: {random:9-10} has given "10"
C16_Witness ==
    /\ Evaluated
    /\ call.text = RandomTemplate(9, 10, <<>>)
    /\ call.ret.result = <<"1", "0">>

\* C17: process_placeholders returns a string and never raises, whatever
\* the clipboard and the input dialogs do.
C17_NeverRaises == call.fn = "process_placeholders" => ~call.ret.raised

\* C18: evaluating {input:} puts a visible error marker in the place of the
\* placeholder, asks nothing, and completes.
C18_EmptyPromptMarked ==
    (call.fn = "process_placeholders" /\ call.text = input_empty
     /\ call.dialog_fails = 0)
        => /\ ~call.ret.raised
           /\ call.ret.requests = <<>>
           /\ call.ret.result # <<>>
           /\ call.ret.result[1] = "["

-----------------------------------------------------------------------------
\* validate_placeholders (lines 1433-1468)

\* text.count(ch)
count(text, ch) == Cardinality({i \in 1..Len(text) : text[i] = ch})

startswith(s, prefix) ==
    Len(prefix) <= Len(s) /\ SubSeq(s, 1, Len(prefix)) = prefix

RECURSIVE placeholder_matches(_, _)
\* list(re.finditer(r"\{([^}]*)\}", text)) from the 0-based position from on:
\* a match begins at the first "{" that a "}" follows and ends at that "}"
placeholder_matches(text, from) ==
    LET open == find(text, <<"{">>, from)
        close == IF open = -1 THEN -1 ELSE find(text, <<"}">>, open + 1)
    IN  IF close = -1 THEN <<>>
        ELSE <<[full_placeholder |-> SubSeq(text, open + 1, close + 1),
                placeholder_content |-> SubSeq(text, open + 2, close)]>>
             \o placeholder_matches(text, close + 1)

\* line 1447
known_literals ==
    {<<"d", "a", "t", "e">>, <<"t", "i", "m", "e">>, <<"d", "a", "t", "e", "_", "l", "o", "n", "g">>, <<"w", "e", "e", "k", "d", "a", "y">>, <<"c", "l", "i", "p", "b", "o", "a", "r", "d">>}

RandomPrefix == <<"r", "a", "n", "d", "o", "m", ":">>

\* the exception classes the except clause of line 1464 catches
Caught == {"ValueError"}

\* int(s) of lines 1459-1460 on a stripped string: an optional sign and then
\* digits only, anything else raises ValueError
parse_int(s) ==
    LET signed == s # <<>> /\ s[1] \in {"-", "+"}
        digits == IF signed THEN Tail(s) ELSE s
    IN  IF int_ok(digits)
        THEN [error |-> "none",
              value |-> IF signed /\ s[1] = "-" THEN 0 - int(digits)
                        ELSE int(digits)]
        ELSE [error |-> "ValueError", value |-> 0]

Issue(full_placeholder, kind) == [ph |-> full_placeholder, kind |-> kind]

\* check_random with a fault: equal bounds are accepted
check_random_inclusive(full_placeholder, range_str) ==
    IF range_str = <<>> \/ find(range_str, <<"-">>, 0) = -1
    THEN [raised |-> FALSE,
          issues |-> <<Issue(full_placeholder, "invalid range format, e.g., 1-100")>>]
    ELSE LET parts == split_dash(range_str)
             min_val == parse_int(strip(parts[1]))
             max_val == parse_int(strip(parts[2]))
         IN  IF min_val.error # "none" \/ max_val.error # "none"
             THEN [raised |-> FALSE,
                   issues |-> <<Issue(full_placeholder, "range values not numeric")>>]
             ELSE [raised |-> FALSE,
                   issues |-> IF min_val.value > max_val.value
                              THEN <<Issue(full_placeholder, "min value >= max value")>>
                              ELSE <<>>]

\* lines 1450-1465: the issues of a placeholder that starts with random:,
\* and the exception that leaves the try statement, if one does
check_random(full_placeholder, range_str) ==
    IF range_str = <<>> \/ find(range_str, <<"-">>, 0) = -1
    THEN [raised |-> FALSE,
          issues |-> <<Issue(full_placeholder, "invalid range format, e.g., 1-100")>>]
    ELSE LET parts == split_dash(range_str)
             min_val == parse_int(strip(parts[1]))
             max_val == parse_int(strip(parts[2]))
             error == IF min_val.error # "none" THEN min_val.error
                      ELSE max_val.error
         IN  IF error # "none"
             THEN IF error \in Caught
                  THEN [raised |-> FALSE,
                        issues |-> <<Issue(full_placeholder, "range values not numeric")>>]
                  ELSE [raised |-> TRUE, issues |-> <<>>]
             ELSE [raised |-> FALSE,
                   issues |-> IF min_val.value >= max_val.value
                              THEN <<Issue(full_placeholder, "min value >= max value")>>
                              ELSE <<>>]

\* check_placeholder with a fault: a placeholder that starts with neither
\* input: nor random: is accepted
check_placeholder_lenient(m) ==
    IF m.placeholder_content \in known_literals
    THEN [raised |-> FALSE, issues |-> <<>>]
    ELSE IF startswith(m.placeholder_content, SubSeq(InputOpen, 2, Len(InputOpen)))
    THEN [raised |-> FALSE,
          issues |-> IF Len(m.placeholder_content) = 6
                     THEN <<Issue(m.full_placeholder, "missing prompt")>>
                     ELSE <<>>]
    ELSE IF startswith(m.placeholder_content, RandomPrefix)
    THEN check_random(m.full_placeholder,
                      SubSeq(m.placeholder_content, 8, Len(m.placeholder_content)))
    ELSE [raised |-> FALSE, issues |-> <<>>]

\* the body of the loop, lines 1444-1467, for one match
check_placeholder(m) ==
    IF m.placeholder_content \in known_literals
    THEN [raised |-> FALSE, issues |-> <<>>]
    ELSE IF startswith(m.placeholder_content, SubSeq(InputOpen, 2, Len(InputOpen)))
    THEN [raised |-> FALSE,
          issues |-> IF SubSeq(m.placeholder_content, 7, Len(m.placeholder_content)) = <<>>
                     THEN <<Issue(m.full_placeholder, "missing prompt")>>
                     ELSE <<>>]
    ELSE IF startswith(m.placeholder_content, RandomPrefix)
    THEN check_random(m.full_placeholder,
                      SubSeq(m.placeholder_content, 8, Len(m.placeholder_content)))
    ELSE [raised |-> FALSE,
          issues |-> <<Issue(m.full_placeholder, "unknown placeholder")>>]

RECURSIVE check_matches(_)
\* the for loop of line 1443: an exception ends it
check_matches(matches) ==
    IF matches = <<>> THEN [raised |-> FALSE, issues |-> <<>>]
    ELSE LET first == check_placeholder(Head(matches))
             rest == check_matches(Tail(matches))
         IN  IF first.raised THEN [raised |-> TRUE, issues |-> <<>>]
             ELSE [raised |-> rest.raised,
                   issues |-> IF rest.raised THEN <<>>
                              ELSE first.issues \o rest.issues]

validate_placeholders(text) ==
    LET open_count == count(text, "{")
        close_count == count(text, "}")
        unmatched == IF open_count # close_count
                     THEN <<[ph |-> <<>>, kind |-> "Unmatched braces",
                             open |-> open_count, close |-> close_count]>>
                     ELSE <<>>
        checked == check_matches(placeholder_matches(text, 0))
    IN  [raised |-> checked.raised,
         invalid |-> IF checked.raised THEN <<>>
                     ELSE unmatched \o checked.issues]

-----------------------------------------------------------------------------
\* Validation of bounded templates

\* a template has at most MaxTokens pieces, a range at most MaxRange
\* characters
MaxTokens == 5
MaxRange == 4

Tokens ==
    {<<"{">>, <<"}">>, <<"f", "o", "o">>, <<"d", "a", "t", "e">>, <<"i", "n", "p", "u", "t", ":">>, <<"r", "a", "n", "d", "o", "m", ":">>, <<"a">>}

RangeChars == {"1", "2", "-", " ", "x"}

RECURSIVE Concat(_)
Concat(pieces) ==
    IF pieces = <<>> THEN <<>> ELSE Head(pieces) \o Concat(Tail(pieces))

Validation(text) ==
    [fn |-> "validate_placeholders", text |-> text,
     ret |-> validate_placeholders(text)]

\* save_snippet validates the text of the editor (line 1412)
ValidateTemplate ==
    /\ call = NoCall
    /\ \E n \in 0..MaxTokens :
           \E pieces \in [1..n -> Tokens] : call' = Validation(Concat(pieces))
    /\ last_op' = Op("validate_placeholders", "", <<>>, "")
    /\ UNCHANGED <<current_input, is_listening, snippets, snippet_history,
                   status_var, after_queue, stack, CLIPBOARD_AVAILABLE,
                   listener_pc, nkeys, lifecycle>>

\* the same for a text that is one random placeholder
ValidateRange ==
    /\ call = NoCall
    /\ \E n \in 0..MaxRange :
           \E range_str \in [1..n -> RangeChars] :
               call' = Validation(<<"{">> \o RandomPrefix \o range_str \o <<"}">>)
    /\ last_op' = Op("validate_placeholders", "", <<>>, "")
    /\ UNCHANGED <<current_input, is_listening, snippets, snippet_history,
                   status_var, after_queue, stack, CLIPBOARD_AVAILABLE,
                   listener_pc, nkeys, lifecycle>>

InitValidate == InitApp(LoadedSnippets) /\ CLIPBOARD_AVAILABLE

NextValidate ==
    \/ ValidateTemplate
    \/ ValidateRange

SpecValidate == InitValidate /\ [][NextValidate]_vars

\* the {...} spans of a text, as pairs of 1-based positions: a span opens at
\* a "{" with no other "{" between it and the "}" before it (or the start
\* of the text), and closes at the next "}"
Spans(text) ==
    {sp \in (1..Len(text)) \X (1..Len(text)) :
        /\ sp[1] < sp[2]
        /\ text[sp[1]] = "{"
        /\ text[sp[2]] = "}"
        /\ \A k \in (sp[1] + 1)..(sp[2] - 1) : text[k] # "}"
        /\ \A j \in 1..(sp[1] - 1) :
               text[j] = "{" => \E k \in (j + 1)..(sp[1] - 1) : text[k] = "}"}

\* the spans whose content is no known literal and starts with neither
\* input: nor random:
UnknownSpans(text) ==
    {sp \in Spans(text) :
        LET content == SubSeq(text, sp[1] + 1, sp[2] - 1)
        IN  /\ content \notin known_literals
            /\ ~startswith(content, <<"i", "n", "p", "u", "t", ":">>)
            /\ ~startswith(content, <<"r", "a", "n", "d", "o", "m", ":">>)}

UnknownIssues(invalid) ==
    {i \in 1..Len(invalid) : invalid[i].kind = "unknown placeholder"}

\* C19: validate_placeholders never raises, and for a text with as many "{"
\* as "}" it reports exactly one "unknown placeholder" issue for each {...}
\* span whose content is no known literal and starts with neither input:
\* nor random:, naming that span, and no other such issue.
C19_OneIssuePerUnknownSpan ==
    call.fn = "validate_placeholders"
        => /\ ~call.ret.raised
           /\ count(call.text, "{") = count(call.text, "}")
                => /\ Cardinality(UnknownIssues(call.ret.invalid))
                        = Cardinality(UnknownSpans(call.text))
                   /\ \A sp \in UnknownSpans(call.text) :
                          \E i \in UnknownIssues(call.ret.invalid) :
                              call.ret.invalid[i].ph
                                  = SubSeq(call.text, sp[1], sp[2])
                   /\ \A i \in UnknownIssues(call.ret.invalid) :
                          \E sp \in UnknownSpans(call.text) :
                              call.ret.invalid[i].ph
                                  = SubSeq(call.text, sp[1], sp[2])

\* C19 witness: {foo} has been validated and has exactly one issue, the
\* unknown placeholder {foo}
C19_Witness ==
    /\ call.fn = "validate_placeholders"
    /\ call.text = <<"{", "f", "o", "o", "}">>
    /\ call.ret.invalid = <<Issue(<<"{", "f", "o", "o", "}">>, "unknown placeholder")>>

-----------------------------------------------------------------------------
\* Shutdown: quit_app (lines 492-515) and the end of main (src/main.py:47)
\*
\* listener and mouse_listener are the two pynput threads: "running",
\* "stopping" once stop() has been requested, "terminated" once the thread's
\* run method has returned.  process is "running" while root.mainloop()
\* runs, "destroyed" once root.destroy() has ended the loop, and "exited"
\* once main has returned.  The tray icon and the two saves of quit_app do
\* not touch the listeners and are left out.

StopOutcomes == {"stops", "raises"}

\* Thread.is_alive()
is_alive(thread) == thread # "terminated"

\* lines 494-498 and 500-504: stop() is called on a thread that is alive;
\* an exception of stop() is caught and logged, the thread is then not
\* stopped
stop(thread, outcome) ==
    IF is_alive(thread) /\ outcome = "stops" THEN "stopping" ELSE thread

logged_stop_failure(thread, outcome) == is_alive(thread) /\ outcome = "raises"

quit_app(kbd, mse) ==
    /\ process = "running"
    /\ listener' = stop(listener, kbd)
    /\ mouse_listener' = stop(mouse_listener, mse)
    /\ process' = "destroyed"
    /\ last_op' = Op("quit_app", "", <<>>,
                     IF \/ logged_stop_failure(listener, kbd)
                        \/ logged_stop_failure(mouse_listener, mse)
                     THEN "stop failure logged" ELSE "stopped")
    /\ UNCHANGED <<current_input, is_listening, snippets, snippet_history,
                   status_var, after_queue, stack, CLIPBOARD_AVAILABLE,
                   listener_pc, nkeys, call>>

\* a listener thread that was asked to stop leaves its run method, at a
\* time of its own
listener_terminates ==
    /\ listener = "stopping"
    /\ process # "exited"
    /\ listener' = "terminated"
    /\ UNCHANGED <<current_input, is_listening, snippets, snippet_history,
                   status_var, after_queue, stack, CLIPBOARD_AVAILABLE,
                   listener_pc, last_op, nkeys, call, mouse_listener, process>>

mouse_listener_terminates ==
    /\ mouse_listener = "stopping"
    /\ process # "exited"
    /\ mouse_listener' = "terminated"
    /\ UNCHANGED <<current_input, is_listening, snippets, snippet_history,
                   status_var, after_queue, stack, CLIPBOARD_AVAILABLE,
                   listener_pc, last_op, nkeys, call, listener, process>>

\* root.mainloop() returns after root.destroy() and main returns (line 47
\* of src/main.py is its last statement).  Nothing joins the listener
\* threads, and pynput's listeners are daemon threads, which the
\* interpreter does not wait for.
main_returns ==
    /\ process = "destroyed"
    /\ process' = "exited"
    /\ UNCHANGED <<current_input, is_listening, snippets, snippet_history,
                   status_var, after_queue, stack, CLIPBOARD_AVAILABLE,
                   listener_pc, last_op, nkeys, call, listener, mouse_listener>>

\* the application's steps while it runs: key events need the keyboard
\* listener, the expansion needs the Tk loop
QuitKeyPress == process = "running" /\ listener = "running" /\ KeyPress

QuitKeyReturn ==
    process = "running" /\ listener = "running" /\ on_key_press_return

QuitExpand == process = "running" /\ ExpandOk

Quit == \E kbd \in StopOutcomes, mse \in StopOutcomes : quit_app(kbd, mse)

InitQuit == InitApp(LoadedSnippets) /\ CLIPBOARD_AVAILABLE

NextQuit ==
    \/ QuitKeyPress
    \/ QuitKeyReturn
    \/ QuitExpand
    \/ Quit
    \/ listener_terminates
    \/ mouse_listener_terminates
    \/ main_returns

SpecQuit == InitQuit /\ [][NextQuit]_vars

\* C20: when quit_app has stopped both listeners without a failure, the
\* process exits only after both listener threads have terminated.
C20_ThreadsTerminatedBeforeExit ==
    (process = "exited" /\ last_op.op = "quit_app"
     /\ last_op.result = "stopped")
        => listener = "terminated" /\ mouse_listener = "terminated"

-----------------------------------------------------------------------------
\* Command-like shortcuts, under SpecMatch

\* C21: when a character is appended and the new buffer ends with a
\* shortcut whose first character is not alphanumeric, that key event
\* dispatches this shortcut, whatever precedes it in the buffer, or a longer
\* shortcut that the buffer ends with and that satisfies its own condition.
C21_CommandLikeUnconditional ==
    [][(HandledKey /\ char_pressed(last_op'.key) # NoChar)
            => LET buf == LastN(current_input
                                \o <<char_pressed(last_op'.key)>>, max_buffer)
               IN  \A k \in DOMAIN snippets :
                       (k # <<>> /\ ~isalnum(k[1]) /\ endswith(buf, k))
                           => /\ Len(after_queue') = Len(after_queue) + 1
                              /\ LET cb == after_queue'[Len(after_queue')]
                                 IN  /\ cb.kind = "expand"
                                     /\ \/ cb.shortcut = k
                                        \/ /\ Len(cb.shortcut) > Len(k)
                                           /\ Expandable(buf, cb.shortcut)]_vars

\* C21 witness: "/s" has been dispatched from the buffer "x/s", where a
\* letter precedes it
C21_Witness ==
    /\ last_op.op = "on_key_press"
    /\ last_op.result = "match"
    /\ last_op.before = <<"x", "/">>
    /\ last_op.key = "s"
    /\ last_op.shortcut = <<"/", "s">>
    /\ listener_pc = "scheduled"
    /\ after_queue[Len(after_queue)].shortcut = <<"/", "s">>

-----------------------------------------------------------------------------
\* The choice of the Inject path, under SpecReplace

\* the operations on the clipboard
ClipboardOps == {"pyperclip.paste", "pyperclip.copy"}

\* the operations of a traced call named in ops
EventsOf(c, ops) == {i \in 1..Len(c.ret.events) : c.ret.events[i].op \in ops}

\* C22: once the selection and the deletion are done, replace_text types
\* the replacement exactly when CLIPBOARD_AVAILABLE is false.  With the
\* capability it never types, whichever clipboard call fails; without it,
\* it makes no clipboard read or write and its Inject step is the typing
\* of the replacement.
C22_TypingOnlyWithoutClipboard ==
    [][Replaced
        => LET c == call'
           IN  /\ CLIPBOARD_AVAILABLE => EventsOf(c, {"type"}) = {}
               /\ ~CLIPBOARD_AVAILABLE
                    => /\ EventsOf(c, ClipboardOps \cup {"cmd+v", "ctrl+v"}) = {}
                       /\ c.fail = "none"
                            => InjectEvents(c) = <<TypeText(c.replacement)>>
               /\ EventsOf(c, {"type"}) # {} => ~CLIPBOARD_AVAILABLE]_vars

\* C22 witness: without the clipboard capability a call has typed the
\* replacement and touched no clipboard
C22_Witness ==
    /\ call.fn = "replace_text"
    /\ ~CLIPBOARD_AVAILABLE
    /\ call.fail = "none"
    /\ InjectEvents(call) = <<TypeText(call.replacement)>>
    /\ EventsOf(call, ClipboardOps) = {}

-----------------------------------------------------------------------------
\* Further claims on process_placeholders, under SpecPlaceholders

\* the text s matches \{random:\s*\d+\s*-\s*\d+\s*\} at the 1-based
\* position i
RandomPatternAt(s, i) ==
    LET p0 == SpanEnd(s, i + Len(RandomOpen), Whitespace)
        p1 == SpanEnd(s, p0, Digits)
        p2 == SpanEnd(s, p1, Whitespace)
        p3 == SpanEnd(s, p2 + 1, Whitespace)
        p4 == SpanEnd(s, p3, Digits)
        p5 == SpanEnd(s, p4, Whitespace)
    IN  /\ i + Len(RandomOpen) - 1 <= Len(s)
        /\ SubSeq(s, i, i + Len(RandomOpen) - 1) = RandomOpen
        /\ p1 > p0
        /\ p2 <= Len(s) /\ s[p2] = "-"
        /\ p4 > p3
        /\ p5 <= Len(s) /\ s[p5] = "}"

\* C23: the text process_placeholders returns for a template of random
\* placeholders holds no occurrence of \{random:\s*\d+\s*-\s*\d+\s*\}, the
\* forms with whitespace after "random:" or before "}" included.
C23_NoRandomPlaceholderLeft ==
    (Evaluated /\ \E i \in 1..Len(call.text) : RandomPatternAt(call.text, i))
        => \A i \in 1..Len(call.ret.result) :
               ~RandomPatternAt(call.ret.result, i)

clipboard_ph == <<"{", "c", "l", "i", "p", "b", "o", "a", "r", "d", "}">>

\* the number of occurrences of t in s, counted from the left without
\* overlap
RECURSIVE Occurrences(_, _)
Occurrences(s, t) ==
    LET i == find(s, t, 0)
    IN  IF i = -1 THEN 0
        ELSE 1 + Occurrences(SubSeq(s, i + Len(t) + 1, Len(s)), t)

\* the marker that stands for a clipboard that cannot be read
ClipboardMarker ==
    IF CLIPBOARD_AVAILABLE THEN <<"[", "C", "l", "i", "p", "b", "o", "a", "r", "d", " ", "E", "r", "r", "o", "r", "]">>
    ELSE <<"[", "C", "l", "i", "p", "b", "o", "a", "r", "d", " ", "N", "/", "A", "]">>

\* C24: when the template holds {clipboard} and the clipboard read raises,
\* or there is no clipboard capability, process_placeholders puts
\* "[Clipboard Error]", respectively "[Clipboard N/A]", in the place of
\* every {clipboard} and goes on: the random and the input placeholder that
\* follow are substituted as usual.
C24_ClipboardFailureDegrades ==
    (/\ call.fn = "process_placeholders"
     /\ call.dialog_fails = 0
     /\ Occurrences(call.text, clipboard_ph) > 0
     /\ ~CLIPBOARD_AVAILABLE \/ ~call.paste.ok)
        => /\ ~call.ret.raised
           /\ Occurrences(call.ret.result, clipboard_ph) = 0
           /\ Occurrences(call.ret.result, ClipboardMarker)
                = Occurrences(call.text, clipboard_ph)
           /\ call.text = clipboard_random_input
                => /\ call.ret.result
                        = ClipboardMarker \o <<"1">> \o call.responses[1]
                   /\ Len(call.ret.requests) = 1

\* C24 witness: the clipboard read raised, and the marker, the random
\* number and the response are in the result
C24_Witness ==
    /\ Evaluated
    /\ CLIPBOARD_AVAILABLE
    /\ call.paste = ClipboardRaises
    /\ call.text = clipboard_random_input
    /\ call.ret.result = <<"[", "C", "l", "i", "p", "b", "o", "a", "r", "d", " ", "E", "r", "r", "o", "r", "]", "1", "a">>

-----------------------------------------------------------------------------
\* Further claims on validate_placeholders, under SpecValidate

\* s is an integer literal: digits, after an optional sign
IsInteger(s) ==
    /\ s # <<>>
    /\ LET digits == IF s[1] \in {"-", "+"} THEN Tail(s) ELSE s
       IN  digits # <<>> /\ \A i \in 1..Len(digits) : digits[i] \in Digits

IntegerValue(s) ==
    IF s[1] = "-" THEN 0 - int(Tail(s))
    ELSE IF s[1] = "+" THEN int(Tail(s))
    ELSE int(s)

\* the range a-b has two bounds, around its first dash, that are integers
\* with a < b
ProperRange(range_str) ==
    \E d \in 1..Len(range_str) :
        /\ range_str[d] = "-"
        /\ \A j \in 1..(d - 1) : range_str[j] # "-"
        /\ LET a == strip(SubSeq(range_str, 1, d - 1))
               b == strip(SubSeq(range_str, d + 1, Len(range_str)))
           IN  /\ IsInteger(a)
               /\ IsInteger(b)
               /\ IntegerValue(a) < IntegerValue(b)

\* whether a span with this content has to be reported
Faulty(content) ==
    IF startswith(content, <<"i", "n", "p", "u", "t", ":">>) THEN content = <<"i", "n", "p", "u", "t", ":">>
    ELSE IF startswith(content, RandomPrefix)
    THEN ~ProperRange(SubSeq(content, Len(RandomPrefix) + 1, Len(content)))
    ELSE FALSE

\* the spans of the text that start with input: or random:
TypedSpans(text) ==
    {sp \in Spans(text) :
        LET content == SubSeq(text, sp[1] + 1, sp[2] - 1)
        IN  \/ startswith(content, <<"i", "n", "p", "u", "t", ":">>)
            \/ startswith(content, RandomPrefix)}

\* the issues that name a placeholder starting with input: or random:
TypedIssues(invalid) ==
    {i \in 1..Len(invalid) :
        \/ startswith(invalid[i].ph, InputOpen)
        \/ startswith(invalid[i].ph, RandomOpen)}

\* C25: validate_placeholders reports one issue for each {random:a-b} span
\* unless a and b are integers with a < b (so a = b is reported), and one
\* issue for each {input:...} span whose prompt is empty; the other spans
\* of these two kinds are not reported.
C25_RangeAndPromptChecked ==
    call.fn = "validate_placeholders"
        => LET text == call.text
               invalid == call.ret.invalid
               faulty == {sp \in TypedSpans(text) :
                             Faulty(SubSeq(text, sp[1] + 1, sp[2] - 1))}
           IN  /\ ~call.ret.raised
               /\ Cardinality(TypedIssues(invalid)) = Cardinality(faulty)
               /\ \A sp \in TypedSpans(text) :
                      (sp \in faulty)
                        <=> \E i \in TypedIssues(invalid) :
                                invalid[i].ph = SubSeq(text, sp[1], sp[2])
               /\ \A i \in TypedIssues(invalid) :
                      invalid[i].kind # "unknown placeholder"

\* C25 witness: {random:1-1} has been validated and is reported
C25_Witness ==
    /\ call.fn = "validate_placeholders"
    /\ call.text = <<"{", "r", "a", "n", "d", "o", "m", ":", "1", "-", "1", "}">>
    /\ call.ret.invalid
         = <<Issue(<<"{", "r", "a", "n", "d", "o", "m", ":", "1", "-", "1", "}">>, "min value >= max value")>>

-----------------------------------------------------------------------------
\* The clipboard's text in the result, under SpecPlaceholders

\* C26: the text put in the place of {clipboard} is in the result as it is:
\* for the template {clipboard} the result is the clipboard's text, and for
\* every template the input requests are as many as the {input:...}
\* occurrences of the template itself.
C26_ClipboardTextVerbatim ==
    (/\ Evaluated
     /\ CLIPBOARD_AVAILABLE
     /\ call.paste.ok
     /\ Occurrences(call.text, clipboard_ph) > 0)
        => /\ Len(call.ret.requests) = Len(input_matches(call.text, 1))
           /\ call.text = clipboard_ph => call.ret.result = call.paste.text

-----------------------------------------------------------------------------
\* History and dictionary, under SpecEdit

\* C27: every shortcut of snippet_history is a key of the snippet
\* dictionary, in every reachable state.
C27_HistoryWithinDictionary ==
    \A i \in 1..Len(snippet_history) : snippet_history[i] \in DOMAIN snippets

-----------------------------------------------------------------------------
\* The order of completions, under Spec

\* The expansions in flight, oldest dispatch first: the Tk loop starts the
\* scheduled callbacks in the order of their dispatch, so those that wait in
\* an input dialog, outermost first, precede those still scheduled.
InFlightOrder ==
    [i \in 1..Len(stack) |-> stack[i].shortcut]
    \o [i \in 1..Len(Scheduled) |-> Scheduled[i].shortcut]

\* C28: a step that completes an expansion completes the one that was
\* dispatched first among those in flight, also while an earlier expansion
\* waits in an input dialog.
C28_CompletionInDispatchOrder ==
    [][Completed(last_op')
        => /\ last_op'.shortcut = Head(InFlightOrder)
           /\ stack # <<>> => (last_op'.op = "dialog_closed" /\ Len(stack) = 1)]_vars

-----------------------------------------------------------------------------
\* The deferred expansion against edits of the dictionary

\* bound_arguments with a fault: the text is looked up when the callback
\* runs
late_bound_arguments(cb) ==
    [shortcut |-> cb.shortcut,
     text |-> IF cb.shortcut \in DOMAIN snippets
              THEN snippets[cb.shortcut].text ELSE <<>>]

\* line 2051: lambda s=shortcut, t=text_to_expand: the default values are
\* bound when on_key_press creates the lambda, and are the arguments of
\* _process_and_replace_on_main_thread when the Tk loop calls it
bound_arguments(cb) == [shortcut |-> cb.shortcut, text |-> cb.text]

\* _process_and_replace_on_main_thread on a text without placeholders, with
\* its arguments and the call of replace_text it makes (lines 2062-2064)
ExpandBound ==
    /\ after_queue # <<>>
    /\ RunExpansion("ok")
    /\ LET args == bound_arguments(Head(after_queue))
       IN  call' = [fn |-> "_process_and_replace_on_main_thread",
                    args |-> args,
                    ret |-> replace_text(args.shortcut, args.text, <<>>,
                                         "linux", "none")]

NewText == <<"n", "e", "w">>

\* the editor saves a new text for a snippet of the dictionary
EditSnippet ==
    \E shortcut \in DOMAIN CapSnippets : save_snippet(shortcut, NewText, TRUE)

DeleteSnippet ==
    \E shortcut \in DOMAIN snippets : delete_snippet(shortcut, TRUE)

InitBound == InitApp(CapSnippets) /\ CLIPBOARD_AVAILABLE

NextBound ==
    \/ KeyPress
    \/ on_key_press_return
    \/ ExpandBound
    \/ EditSnippet
    \/ DeleteSnippet

SpecBound == InitBound /\ [][NextBound]_vars

EditOps == {"save_snippet", "delete_snippet", "restore_backup"}

\* C29: a dispatch schedules the shortcut with the text the dictionary holds
\* for it at that moment; an edit or a delete of the snippet leaves what is
\* scheduled as it is; the deferred run passes that shortcut and that text
\* to replace_text whatever the dictionary holds by then; and no step other
\* than an edit changes the dictionary.
C29_TemplateCapturedAtDispatch ==
    [][/\ (HandledKey /\ Len(after_queue') > Len(after_queue))
            => LET cb == after_queue'[Len(after_queue')]
               IN  /\ cb.shortcut \in DOMAIN snippets
                   /\ cb.text = snippets[cb.shortcut].text
                   /\ SubSeq(after_queue', 1, Len(after_queue)) = after_queue
       /\ last_op'.op \in EditOps => after_queue' = after_queue
       /\ last_op'.op = "expand"
            => LET cb == Head(after_queue)
                   events == Select(cb.shortcut) \o Delete_shortcut
                            \o <<ClipboardRead, ClipboardWrite(cb.text),
                                 KeyEvent("ctrl+v"), ClipboardWrite(<<>>)>>
               IN  /\ call'.args = [shortcut |-> cb.shortcut, text |-> cb.text]
                   /\ call'.ret.events = events
                   /\ after_queue' = Tail(after_queue)
       /\ last_op'.op \notin EditOps => snippets' = snippets]_vars

\* C29 witness: "s" was expanded with the text "h" read at its dispatch,
\* after the snippet had been deleted
C29_Witness ==
    /\ last_op.op = "expand"
    /\ call.fn = "_process_and_replace_on_main_thread"
    /\ call.args = [shortcut |-> <<"s">>, text |-> <<"h">>]
    /\ <<"s">> \notin DOMAIN snippets
    /\ ClipboardWrite(<<"h">>) \in Range(call.ret.events)

-----------------------------------------------------------------------------
\* The status after a degraded Inject step, under SpecReplace

DegradedMessages ==
    {"Clipboard error expanding", "Clipboard N/A, typed expansion"}

\* the status callbacks that wait in the queue
PendingStatus(queue) == SelectSeq(queue, LAMBDA c : c.kind = "status")

\* a traced call whose Inject step was degraded: the clipboard write or the
\* paste failed, or the replacement was typed
Degraded(c) ==
    \/ CLIPBOARD_AVAILABLE /\ c.fail \in {"write", "paste"}
    \/ ~CLIPBOARD_AVAILABLE /\ c.fail = "none"

\* C30: an expansion whose Inject step is degraded sets "Expanded" and
\* leaves one status callback behind it, with the degraded status; the
\* callback stays in the queue, behind those scheduled before it, until it
\* runs, and when it runs the status becomes the degraded one: that is the
\* status once the callbacks of the expansion have run.
C30_DegradedStatusLast ==
    [][/\ (Replaced /\ Degraded(call'))
            => LET report == after_queue'[Len(after_queue')]
               IN  /\ status_var' = Status("Expanded", call'.shortcut)
                   /\ after_queue' = Tail(after_queue) \o <<report>>
                   /\ report.kind = "status"
                   /\ report.value
                        = IF CLIPBOARD_AVAILABLE
                          THEN Status("Clipboard error expanding", call'.shortcut)
                          ELSE Status("Clipboard N/A, typed expansion", <<>>)
       /\ last_op'.op = "status_callback"
            => /\ Head(after_queue).kind = "status"
               /\ status_var' = Head(after_queue).value
               /\ status_var'.msg \in DegradedMessages
               /\ after_queue' = Tail(after_queue)
       /\ last_op'.op # "status_callback"
            => \/ PendingStatus(after_queue') = PendingStatus(after_queue)
               \/ /\ Replaced /\ Degraded(call')
                  /\ PendingStatus(after_queue')
                       = Append(PendingStatus(after_queue),
                                after_queue'[Len(after_queue')])]_vars

\* C30 witness: the replacement was typed, the expansion set "Expanded", and
\* its callback has run and left "Clipboard N/A, typed expansion"
C30_Witness ==
    /\ last_op.op = "status_callback"
    /\ call.fn = "replace_text"
    /\ ~CLIPBOARD_AVAILABLE
    /\ call.fail = "none"
    /\ call.shortcut \in Range(snippet_history)
    /\ status_var = Status("Clipboard N/A, typed expansion", <<>>)
    /\ PendingStatus(after_queue) = <<>>

====
